---------------------------- MODULE Spec2Model ----------------------------
(***************************************************************************)
(* Model of the Syllabus_GPT note-generation services:                     *)
(*   backend/src/services/notes_llm.py  (splitter, subtopic extractor,     *)
(*        truncator, per-unit pipeline, final orchestrator)                *)
(*   backend/src/services/hyde_llm.py   (HyDE passage generation)          *)
(*   backend/src/services/rag_llm.py    (single-topic RAG pipeline)        *)
(*                                                                         *)
(* A Python str is a sequence of one-character strings.  Fixed template    *)
(* text of the f-strings is kept as one element per literal piece; text    *)
(* that comes from the input is kept character by character.               *)
(***************************************************************************)
EXTENDS Integers, Sequences, FiniteSets, TLC

VARIABLES
    entry,            \* which function was called
    pc,               \* position inside the running function
    syllabus_text,    \* argument of the entry point
    subject,          \* argument: <<>> stands for None
    use_pyq,          \* argument
    top_k,            \* argument
    units,            \* notes_llm.py: units (list of unit_title/unit_text)
    idx,              \* 1-based position of the for-loop over units
    unit_text,        \* argument of extract_subtopics / body of the unit
    subtopics,        \* list returned by extract_subtopics
    hyde_doc,         \* notes_llm.py:97, rag_llm.py:94
    book_context,     \* notes_llm.py:101 (combined_context in rag_llm.py)
    pyq_context,      \* notes_llm.py:108
    request,          \* messages of the last chat-completion request
    all_unit_content, \* notes_llm.py:341
    calls,            \* every call made to a collaborator, in order
    outcomes,         \* how each generate_unit_notes invocation ended
    input_text,       \* argument text of _truncate_context
    max_chars,        \* argument of _truncate_context
    result            \* what the entry point returned

vars == <<entry, pc, syllabus_text, subject, use_pyq, top_k, units, idx,
          unit_text, subtopics, hyde_doc, book_context, pyq_context,
          request, all_unit_content, calls, outcomes, input_text, max_chars,
          result>>

-----------------------------------------------------------------------------
(* Bounds of the model *)

\* longest syllabus text given to the splitter, in tokens of SplitTokens
MaxSplitTokens == 5
\* longest unit body given to the subtopic extractor, in tokens of SubTokens
MaxSubTokens == 4
\* longest syllabus given to the pipelines, in blocks of PipeBlocks
MaxBlocks == 3
\* longest text given to the truncator, in characters
MaxTruncLen == 4
\* largest character budget given to the truncator
MaxTruncChars == 5

-----------------------------------------------------------------------------
(* Python str primitives *)

UpperChars == <<"A","B","C","D","E","F","G","H","I","J","K","L","M",
                "N","O","P","Q","R","S","T","U","V","W","X","Y","Z">>
LowerChars == <<"a","b","c","d","e","f","g","h","i","j","k","l","m",
                "n","o","p","q","r","s","t","u","v","w","x","y","z">>

\* str.lower() on one character
LowerChar(c) ==
    IF \E i \in 1..26 : UpperChars[i] = c
    THEN LowerChars[CHOOSE i \in 1..26 : UpperChars[i] = c]
    ELSE c

\* str.upper() on one character
UpperChar(c) ==
    IF \E i \in 1..26 : LowerChars[i] = c
    THEN UpperChars[CHOOSE i \in 1..26 : LowerChars[i] = c]
    ELSE c

Lower(s) == [i \in 1..Len(s) |-> LowerChar(s[i])]
Upper(s) == [i \in 1..Len(s) |-> UpperChar(s[i])]

\* the characters str.strip() removes and the regex class \s matches
IsSpace(c) == c \in {" ", "\t", "\n", "\r", "\f"}

\* s.replace(old, new) for one-character old and new
ReplaceChar(s, old, new) == [i \in 1..Len(s) |-> IF s[i] = old THEN new ELSE s[i]]

\* s.replace(old, "") for a one-character old
RemoveChar(s, old) == SelectSeq(s, LAMBDA c : c # old)

\* s.strip(chars): drop the leading and trailing elements that are in chars
StripSet(s, chars) ==
    LET keep == {i \in 1..Len(s) : s[i] \notin chars}
    IN  IF keep = {} THEN <<>>
        ELSE LET lo == CHOOSE i \in keep : \A j \in keep : i <= j
                 hi == CHOOSE i \in keep : \A j \in keep : j <= i
             IN  SubSeq(s, lo, hi)

\* s.strip()
Strip(s) == StripSet(s, {" ", "\t", "\n", "\r", "\f"})

\* first position >= p of s whose character is not in class, Len(s)+1 if none
RECURSIVE SkipClass(_, _, _)
SkipClass(s, p, class) ==
    IF p <= Len(s) /\ s[p] \in class THEN SkipClass(s, p + 1, class) ELSE p

\* sep.join(list)
RECURSIVE Join(_, _)
Join(sep, list) ==
    IF list = <<>> THEN <<>>
    ELSE IF Len(list) = 1 THEN list[1]
    ELSE list[1] \o sep \o Join(sep, Tail(list))

\* concatenation of a list of strings
RECURSIVE Concat(_)
Concat(list) == IF list = <<>> THEN <<>> ELSE list[1] \o Concat(Tail(list))

\* needle in haystack
Contains(haystack, needle) ==
    \E p \in 0..(Len(haystack) - Len(needle)) :
        \A i \in 1..Len(needle) : haystack[p + i] = needle[i]

\* str(n) for a natural number
Digits == <<"0","1","2","3","4","5","6","7","8","9">>
RECURSIVE Str(_)
Str(n) == IF n < 10 THEN <<Digits[n + 1]>>
          ELSE Str(n \div 10) \o <<Digits[(n % 10) + 1]>>

\* all strings made of at most n tokens of the set tokens
RECURSIVE TokenStrings(_, _)
TokenStrings(tokens, n) ==
    IF n = 0 THEN {<<>>}
    ELSE LET shorter == TokenStrings(tokens, n - 1)
         IN  shorter \cup {s \o t : s \in shorter, t \in tokens}

-----------------------------------------------------------------------------
(* notes_llm.py: split_syllabus_into_units *)

SepClass   == {" ", "\t", "\n", "\r", "\f", "-"}       \* [\s\-]
RomanClass == {"I", "V", "X", "i", "v", "x"}           \* (?i)[IVX]
DigitClass == {"0","1","2","3","4","5","6","7","8","9"} \* \d
TailClass  == {":", " ", "\t", "\n", "\r", "\f"}       \* [:\s]

\* The regex (?i)(UNIT[\s\-]*(?:[IVX]+|\d+))[:\s]* tried at position p of s.
\* Every quantifier is greedy and what follows it never needs a character
\* it took, so the match is found without backtracking.  gend and mend are
\* the positions following group 1 and following the whole match.
UnitMatchAt(s, p) ==
    IF p + 3 > Len(s) \/ Lower(SubSeq(s, p, p + 3)) # <<"u","n","i","t">>
    THEN [ok |-> FALSE, gend |-> p, mend |-> p]
    ELSE LET q == SkipClass(s, p + 4, SepClass)
             g == IF q <= Len(s) /\ s[q] \in RomanClass
                  THEN SkipClass(s, q, RomanClass)
                  ELSE SkipClass(s, q, DigitClass)
         IN  IF g = q
             THEN [ok |-> FALSE, gend |-> p, mend |-> p]
             ELSE [ok |-> TRUE, gend |-> g, mend |-> SkipClass(s, g, TailClass)]

\* re.split(pattern, text) from position p on, the current piece starting at
\* last: the pieces between the matches, each match's group 1 between them
RECURSIVE UnitSplitFrom(_, _, _)
UnitSplitFrom(s, last, p) ==
    IF p > Len(s) THEN <<SubSeq(s, last, Len(s))>>
    ELSE LET m == UnitMatchAt(s, p)
         IN  IF m.ok
             THEN <<SubSeq(s, last, p - 1), SubSeq(s, p, m.gend - 1)>>
                  \o UnitSplitFrom(s, m.mend, m.mend)
             ELSE UnitSplitFrom(s, last, p + 1)

\* line 33
SplitText(text) == Strip(ReplaceChar(text, "\r", " "))

\* line 37
SplitParts(text) == UnitSplitFrom(SplitText(text), 1, 1)

\* line 47, as a 1-based position
StartIndex(parts) == IF Strip(parts[1]) = <<>> THEN 2 ELSE 1

\* lines 49-53: for i in range(start_index, len(parts) - 1, 2)
RECURSIVE UnitsLoop(_, _)
UnitsLoop(parts, i) ==
    IF i > Len(parts) - 1 THEN <<>>
    ELSE LET unit_title == RemoveChar(Strip(parts[i]), ":")
             body       == Strip(parts[i + 1])
         IN  (IF body # <<>>
              THEN <<[unit_title |-> unit_title, unit_text |-> body]>>
              ELSE <<>>)
             \o UnitsLoop(parts, i + 2)

\* variant: the single-unit fallback of lines 40-41 left out
SplitWithoutFallback(text) ==
    LET parts == SplitParts(text)
    IN  UnitsLoop(parts, StartIndex(parts))

\* lines 28-55
split_syllabus_into_units(text) ==
    LET parts == SplitParts(text)
    IN  IF Len(parts) < 2
        THEN <<[unit_title |-> <<"U","N","I","T","-","I">>,
                unit_text  |-> SplitText(text)]>>
        ELSE UnitsLoop(parts, StartIndex(parts))

-----------------------------------------------------------------------------
(* notes_llm.py: extract_subtopics *)

\* re.sub(r"\s+", " ", text) from position p on
RECURSIVE CollapseFrom(_, _)
CollapseFrom(s, p) ==
    IF p > Len(s) THEN <<>>
    ELSE IF IsSpace(s[p])
         THEN <<" ">> \o CollapseFrom(s, SkipClass(s, p, {" ", "\t", "\n", "\r", "\f"}))
         ELSE <<s[p]>> \o CollapseFrom(s, p + 1)

\* line 63
CollapseSpace(s) == CollapseFrom(s, 1)

\* whether the word w stands at position p of s between two \s characters
WordAt(s, p, w) ==
    /\ p + Len(w) + 1 <= Len(s)
    /\ IsSpace(s[p])
    /\ SubSeq(s, p + 1, p + Len(w)) = w
    /\ IsSpace(s[p + Len(w) + 1])

\* Length of the match of [.,;]|\sand\s|\sor\s|\n at position p of s, 0 when
\* there is none.  The alternatives are tried in the order written.
DelimiterAt(s, p) ==
    IF s[p] \in {".", ",", ";"} THEN 1
    ELSE IF WordAt(s, p, <<"a","n","d">>) THEN 5
    ELSE IF WordAt(s, p, <<"o","r">>) THEN 4
    ELSE IF s[p] = "\n" THEN 1
    ELSE 0

\* re.split(r"[.,;]|\sand\s|\sor\s|\n", text) from position p on
RECURSIVE DelimiterSplitFrom(_, _, _)
DelimiterSplitFrom(s, last, p) ==
    IF p > Len(s) THEN <<SubSeq(s, last, Len(s))>>
    ELSE LET n == DelimiterAt(s, p)
         IN  IF n > 0
             THEN <<SubSeq(s, last, p - 1)>> \o DelimiterSplitFrom(s, p + n, p + n)
             ELSE DelimiterSplitFrom(s, last, p + 1)

\* line 65
RawParts(text) == DelimiterSplitFrom(CollapseSpace(text), 1, 1)

\* the characters of the argument of p.strip(...) at line 67: space, hyphen,
\* en dash (U+2013), em dash (U+2014), colon and bullet (U+2022); each of
\* the three non-ASCII characters is written as one element named by its
\* code point
TrimChars == {" ", "-", "u2013", "u2014", ":", "u2022"}

\* line 67: the fragment is kept when len(p.strip()) > 3
KeepFragment(p) == Len(Strip(p)) > 3

\* line 67: what is stored for a kept fragment
TrimFragment(p) == StripSet(p, TrimChars)

\* line 67: the list comprehension
SubtopicList(text) ==
    LET raw  == RawParts(text)
        kept == SelectSeq(raw, KeepFragment)
    IN  [i \in 1..Len(kept) |-> TrimFragment(kept[i])]

\* list(x) for a set x: its elements once each, in an order the
\* interpreter chooses
ListOfSet(x) ==
    {l \in [1..Cardinality(x) -> x] : \A i, j \in 1..Cardinality(x) : l[i] = l[j] => i = j}

\* line 68: list(set(subtopics)); the possible return values
extract_subtopics(text) ==
    LET l == SubtopicList(text)
    IN  ListOfSet({l[i] : i \in 1..Len(l)})

-----------------------------------------------------------------------------
(* notes_llm.py: _truncate_context *)

\* line 77: the literal "\n\n...[context truncated]...", character by
\* character
TruncationMarker ==
    <<"\n","\n",".",".",".","[","c","o","n","t","e","x","t"," ",
      "t","r","u","n","c","a","t","e","d","]",".",".",".">>

\* variant: the comparison of line 75 written with < instead of <=
TruncateStrictBound(t, m) ==
    IF Len(t) < m THEN t
    ELSE SubSeq(t, 1, m) \o TruncationMarker

\* lines 71-77, for a budget m >= 0: t[:m] is then the first m characters
truncate_context(t, m) ==
    IF Len(t) <= m THEN t
    ELSE SubSeq(t, 1, m) \o TruncationMarker

-----------------------------------------------------------------------------
(* The collaborators: the Groq chat-completion client and the retriever *)

\* text of the n-th reply of the completion client to a HyDE request: every
\* reply is a passage of its own
HydeText(n) == <<"[HyDE passage #">> \o Str(n) \o <<"]">>

\* text of the n-th reply of the completion client to a notes request
NotesText(n) == <<"[generated notes #">> \o Str(n) \o <<"]">>

\* str(e) of the exception a failed completion call raises
ErrorText == <<"Connection error.">>

\* what src.services.vector_store.retrieve_relevant_context may return: a
\* block of text, possibly empty or blank
RetrieverResults == {<<>>, <<" ">>, <<"[retrieved passages]">>}

-----------------------------------------------------------------------------
(* hyde_llm.py: generate_hyde_document *)

HydeSystemPrompt == <<"You are an academic assistant. ...">>

\* lines 31-39 and 43-46: the messages sent for a topic
HydeMessages(topic) ==
    [system |-> HydeSystemPrompt,
     user   |-> <<"\nGenerate a hypothetical academic explanation for the topic:\n\nTOPIC:\n">>
                \o topic
                \o <<"\n\nWrite 1-2 paragraphs that resemble real study material.\nDo NOT mention that this is hypothetical.\n">>]

-----------------------------------------------------------------------------
(* notes_llm.py: generate_unit_notes *)

\* line 105: the cap on the number of reference passages
BookTopKCap == 25
\* line 114: the number of past-exam passages
PyqTopK == 5
\* line 119: the character budget of the reference context
BookContextMaxChars == 5000

Min(a, b) == IF a <= b THEN a ELSE b

\* variant: top_k passed on without the cap
BookTopKUncapped(k) == k

\* line 105
BookTopK(k) == Min(k, BookTopKCap)

\* subject or "<default>"
SubjectOr(subj, default) == IF subj # <<>> THEN subj ELSE default

\* line 96
HydeSeed(title, subj, body) ==
    <<"Explain the concepts of ">> \o title \o <<" in ">>
    \o SubjectOr(subj, <<"Data Science">>) \o <<": ">> \o body

\* line 116
PyqSection(pyq_raw) == <<"\nRELEVANT PAST EXAM QUESTIONS:\n">> \o pyq_raw \o <<"\n">>

\* line 122
SubtopicListStr(list) ==
    Join(<<"\n">>, [i \in 1..Len(list) |-> <<"- ">> \o list[i]])

NotesSystemPrompt == <<"You are an expert academic author and university professor. ...">>

KnowledgeBaseHeading == <<"\n\n---\n\n# **RETRIEVED KNOWLEDGE BASE (Source Material):**\n">>
TaskHeading == <<"\n\n---\n\n# **TASK:**\nWrite **comprehensive study notes** for **">>

\* lines 180-304
NotesUserPrompt(title, body, subj, book, pyq, list) ==
    <<"\n# **CONTEXT:**\n- **Subject:** ">> \o SubjectOr(subj, <<"General">>)
    \o <<"\n- **Unit:** ">> \o title
    \o <<"\n- **Syllabus Topics:**\n">> \o body
    \o KnowledgeBaseHeading \o book
    \o <<"\n\n">> \o pyq
    \o TaskHeading \o title
    \o <<"**.\n\n---\n\n# **REQUIRED STRUCTURE** (Follow this exactly):\n\n---\n\n# **">>
    \o title
    \o <<"** - [Topic Name] ... *(Repeat the structure above for every major topic in the syllabus: ">>
    \o SubtopicListStr(list)
    \o <<")* ... **END OF NOTES**\n">>

\* lines 310-313
NotesMessages(title, body, subj, book, pyq, list) ==
    [system |-> NotesSystemPrompt,
     user   |-> NotesUserPrompt(title, body, subj, book, pyq, list)]

ErrorHeading == <<"# Error Generating Notes for ">>
ErrorLabel   == <<"\n\nTechnical error: ">>

\* variant: the error heading without the unit's title
ErrorDocumentWithoutTitle(title, e) == ErrorHeading \o ErrorLabel \o e

\* line 319
ErrorDocument(title, e) == ErrorHeading \o title \o ErrorLabel \o e

-----------------------------------------------------------------------------
(* notes_llm.py: generate_final_notes, assembly of the document *)

\* line 338
CompleteSyllabus ==
    <<"C","o","m","p","l","e","t","e"," ","S","y","l","l","a","b","u","s">>

\* lines 335-338
UnitsOf(text) ==
    LET u == split_syllabus_into_units(text)
    IN  IF u = <<>>
        THEN <<[unit_title |-> CompleteSyllabus, unit_text |-> text]>>
        ELSE u

\* line 358
SubjectHeader(subj) == IF subj # <<>> THEN Upper(subj) ELSE <<"SUBJECT NOTES">>

TocOpen  == "- ["
TocMid   == "](#"
TocClose == ")\n"
TocEnd   == "\n---\n"
FooterStart == "\n\n\n---\n**End of Notes**\n*Generated by SyllabusGPT | "

\* line 370: the anchor of a title
Slug(title) == RemoveChar(ReplaceChar(Lower(title), " ", "-"), ":")

\* line 370
TocLine(title) == <<TocOpen>> \o title \o <<TocMid>> \o Slug(title) \o <<TocClose>>

\* lines 369-370
TocLines(us) == Concat([i \in 1..Len(us) |-> TocLine(us[i].unit_title)])

\* variant: the table of contents starts at the second unit
FinalMarkdownTocOffByOne(subj, us, contents) ==
    <<"\n# ">> \o SubjectHeader(subj)
    \o <<"\n**Comprehensive Study Notes & Exam Preparation**\n\n---\n\n## Table of Contents\n">>
    \o TocLines(Tail(us))
    \o <<TocEnd>>
    \o Join(<<"\n\n">>, contents)
    \o <<FooterStart>> \o SubjectHeader(subj) \o <<"*\n">>

\* lines 360-382
FinalMarkdown(subj, us, contents) ==
    <<"\n# ">> \o SubjectHeader(subj)
    \o <<"\n**Comprehensive Study Notes & Exam Preparation**\n\n---\n\n## Table of Contents\n">>
    \o TocLines(us)
    \o <<TocEnd>>
    \o Join(<<"\n\n">>, contents)
    \o <<FooterStart>> \o SubjectHeader(subj) \o <<"*\n">>

-----------------------------------------------------------------------------
(* rag_llm.py: generate_notes, generate_notes_with_rag *)

\* line 106
NoContextNotice == <<"No context found in KB, answer from general knowledge.">>

GenerateNotesSystemPrompt == <<"You are an expert engineering mentor. ...">>

\* lines 44-75
GenerateNotesMessages(topic, context_chunks) ==
    [system |-> GenerateNotesSystemPrompt,
     user   |-> <<"\nGenerate detailed, exam-ready study notes for the topic:\n\nTOPIC:\n">>
                \o topic
                \o <<"\n\nUSING ONLY the following context (books, notes, PYQs):\n\nCONTEXT:\n">>
                \o Join(<<"\n\n">>, context_chunks)
                \o <<"\n\nRequirements: ...">>]

\* lines 104-111: the context chunks handed to generate_notes
RagContextChunks(combined_context) ==
    IF Strip(combined_context) = <<>> THEN <<NoContextNotice>> ELSE <<combined_context>>

-----------------------------------------------------------------------------
(* Inputs *)

\* pieces of syllabus text for the splitter: two headings, the bare word,
\* body text holding a carriage return, a blank, a colon
SplitTokens ==
    { <<"U","N","I","T","-","1">>,
      <<"U","n","i","t"," ","I","I",":">>,
      <<"U","N","I","T">>,
      <<"a","\r","b">>,
      <<" ">>,
      <<":">> }

SplitInputs == TokenStrings(SplitTokens, MaxSplitTokens)

\* pieces of unit body for the subtopic extractor
SubTokens ==
    { <<"a","b","c","d">>,
      <<"x","y">>,
      <<"-">>,
      <<" ">>,
      <<",">>,
      <<" ","a","n","d"," ">>,
      <<"\n">>,
      <<":">> }

SubInputs == TokenStrings(SubTokens, MaxSubTokens)

\* blocks of syllabus text for the pipelines: a heading with a body, a
\* heading with a blank body, text without a heading
PipeBlocks ==
    { <<"U","N","I","T","-","1",":"," ","a","b","c","d",","," ","x","y"," ">>,
      <<"U","n","i","t"," ","I","I",":"," ">>,
      <<"a","b","c","d"," ">> }

PipeInputs == TokenStrings(PipeBlocks, MaxBlocks)

Subjects == {<<>>, <<"m","l">>}
TopKValues == {10, 40}

-----------------------------------------------------------------------------
(* State shared by the specifications *)

NoRequest == [system |-> <<>>, user |-> <<>>]

\* the state of a function that has been called and has done nothing yet
Fresh ==
    /\ pc = "start"
    /\ units = <<>>
    /\ idx = 0
    /\ subtopics = <<>>
    /\ hyde_doc = <<>>
    /\ book_context = <<>>
    /\ pyq_context = <<>>
    /\ request = NoRequest
    /\ all_unit_content = <<>>
    /\ calls = <<>>
    /\ outcomes = <<>>
    /\ result = <<>>

\* a call made to a collaborator: fn is "hyde" or "notes" (the completion
\* client) or "retrieve" (the retriever), unit the position of the unit it was
\* made for (0 in generate_notes_with_rag), text the seed or the query text
\* (the messages of a completion call are in request)
Call(fn, unit, text, pyq, k, raised) ==
    [fn |-> fn, unit |-> unit, text |-> text, use_pyq |-> pyq, top_k |-> k,
     raised |-> raised]

\* how an invocation of generate_unit_notes ended
Outcome(title, hyde, notes, ended, value) ==
    [unit_title |-> title, hyde |-> hyde, notes |-> notes, ended |-> ended,
     value |-> value]

-----------------------------------------------------------------------------
(* Specification SpecSplit: split_syllabus_into_units on every input *)

InitSplit ==
    /\ entry = "split_syllabus_into_units"
    /\ syllabus_text \in SplitInputs
    /\ subject = <<>> /\ use_pyq = FALSE /\ top_k = 0
    /\ unit_text = <<>>
    /\ input_text = <<>> /\ max_chars = 0
    /\ Fresh

SplitCall ==
    /\ entry = "split_syllabus_into_units"
    /\ pc = "start"
    /\ units' = split_syllabus_into_units(syllabus_text)
    /\ pc' = "done"
    /\ UNCHANGED <<input_text, max_chars, entry, syllabus_text, subject, use_pyq, top_k, idx, unit_text,
                   subtopics, hyde_doc, book_context, pyq_context, request,
                   all_unit_content, calls, outcomes, result>>

NextSplit == SplitCall

SpecSplit == InitSplit /\ [][NextSplit]_vars

-----------------------------------------------------------------------------
(* Specification SpecSub: extract_subtopics on every input *)

InitSub ==
    /\ entry = "extract_subtopics"
    /\ unit_text \in SubInputs
    /\ syllabus_text = <<>>
    /\ subject = <<>> /\ use_pyq = FALSE /\ top_k = 0
    /\ input_text = <<>> /\ max_chars = 0
    /\ Fresh

SubCall ==
    /\ entry = "extract_subtopics"
    /\ pc = "start"
    /\ subtopics' \in extract_subtopics(unit_text)
    /\ pc' = "done"
    /\ UNCHANGED <<input_text, max_chars, entry, syllabus_text, subject, use_pyq, top_k, units, idx,
                   unit_text, hyde_doc, book_context, pyq_context, request,
                   all_unit_content, calls, outcomes, result>>

NextSub == SubCall

SpecSub == InitSub /\ [][NextSub]_vars

-----------------------------------------------------------------------------
(* Specification SpecTrunc: _truncate_context on every input, applied once *)
(* and then once more to its own result                                    *)

\* the characters of the texts given to the truncator
TruncChars == {"a", ".", "\n"}

TruncInputs == TokenStrings({<<c>> : c \in TruncChars}, MaxTruncLen)

InitTrunc ==
    /\ entry = "_truncate_context"
    /\ input_text \in TruncInputs
    /\ max_chars \in 0..MaxTruncChars
    /\ syllabus_text = <<>>
    /\ subject = <<>> /\ use_pyq = FALSE /\ top_k = 0
    /\ unit_text = <<>>
    /\ Fresh

\* _truncate_context(input_text, max_chars)
TruncateCall ==
    /\ entry = "_truncate_context"
    /\ pc = "start"
    /\ result' = truncate_context(input_text, max_chars)
    /\ pc' = "done"
    /\ UNCHANGED <<input_text, max_chars, entry, syllabus_text, subject, use_pyq, top_k,
                   units, idx, unit_text, subtopics, hyde_doc, book_context,
                   pyq_context, request, all_unit_content, calls, outcomes>>

\* _truncate_context(result, max_chars): the function applied to what it
\* returned
TruncateAgain ==
    /\ entry = "_truncate_context"
    /\ pc = "done"
    /\ result' = truncate_context(result, max_chars)
    /\ pc' = "again"
    /\ UNCHANGED <<input_text, max_chars, entry, syllabus_text, subject, use_pyq, top_k,
                   units, idx, unit_text, subtopics, hyde_doc, book_context,
                   pyq_context, request, all_unit_content, calls, outcomes>>

NextTrunc ==
    \/ TruncateCall
    \/ TruncateAgain

SpecTrunc == InitTrunc /\ [][NextTrunc]_vars

-----------------------------------------------------------------------------
(* Specification Spec: generate_final_notes and generate_notes_with_rag *)

Init ==
    /\ entry \in {"generate_final_notes", "generate_notes_with_rag"}
    /\ syllabus_text \in PipeInputs
    /\ subject \in Subjects
    /\ use_pyq \in BOOLEAN
    /\ top_k \in TopKValues
    /\ unit_text = <<>>
    /\ input_text = <<>> /\ max_chars = 0
    /\ Fresh

\* the unit the loop of generate_final_notes is at
Unit == units[idx]

\* generate_final_notes, lines 335-346: split, fall back, enter the loop
FinalStart ==
    /\ entry = "generate_final_notes"
    /\ pc = "start"
    /\ units' = UnitsOf(syllabus_text)
    /\ idx' = 1
    /\ pc' = "unit"
    /\ UNCHANGED <<input_text, max_chars, entry, syllabus_text, subject, use_pyq, top_k, unit_text,
                   subtopics, hyde_doc, book_context, pyq_context, request,
                   all_unit_content, calls, outcomes, result>>

\* generate_unit_notes, lines 93-97, the HyDE call returning
HydeOk ==
    /\ pc = "unit"
    /\ unit_text' = Unit.unit_text
    /\ subtopics' \in extract_subtopics(Unit.unit_text)
    /\ LET seed == HydeSeed(Unit.unit_title, subject, Unit.unit_text)
       IN  /\ request' = HydeMessages(seed)
           /\ calls' = Append(calls, Call("hyde", idx, seed, FALSE, 0, FALSE))
    /\ hyde_doc' = HydeText(Len(calls) + 1)
    /\ pc' = "retrieve_book"
    /\ UNCHANGED <<input_text, max_chars, entry, syllabus_text, subject, use_pyq, top_k, units, idx,
                   book_context, pyq_context, all_unit_content, outcomes, result>>

\* variant: the exception of the HyDE call swallowed, the unit going on with
\* an empty passage
HydeRaiseSwallowed ==
    /\ pc = "unit"
    /\ unit_text' = units[idx].unit_text
    /\ subtopics' \in extract_subtopics(units[idx].unit_text)
    /\ LET seed == HydeSeed(units[idx].unit_title, subject, units[idx].unit_text)
       IN  /\ request' = HydeMessages(seed)
           /\ calls' = Append(calls, Call("hyde", idx, seed, FALSE, 0, TRUE))
    /\ hyde_doc' = <<>>
    /\ pc' = "retrieve_book"
    /\ UNCHANGED <<input_text, max_chars, entry, syllabus_text, subject, use_pyq, top_k, units, idx,
                   book_context, pyq_context, all_unit_content, outcomes, result>>

\* generate_unit_notes, lines 93-97, the HyDE call raising: nothing catches
\* the exception in generate_unit_notes (line 97) nor in generate_final_notes
\* (line 348)
HydeRaise ==
    /\ pc = "unit"
    /\ unit_text' = Unit.unit_text
    /\ subtopics' \in extract_subtopics(Unit.unit_text)
    /\ LET seed == HydeSeed(Unit.unit_title, subject, Unit.unit_text)
       IN  /\ request' = HydeMessages(seed)
           /\ calls' = Append(calls, Call("hyde", idx, seed, FALSE, 0, TRUE))
    /\ outcomes' = Append(outcomes,
                          Outcome(Unit.unit_title, "raised", "not called", "raised", <<>>))
    /\ pc' = "raised"
    /\ UNCHANGED <<input_text, max_chars, entry, syllabus_text, subject, use_pyq, top_k, units, idx,
                   hyde_doc, book_context, pyq_context, all_unit_content, result>>

\* generate_unit_notes, lines 101-108
RetrieveBook ==
    /\ pc = "retrieve_book"
    /\ \E r \in RetrieverResults : book_context' = r
    /\ calls' = Append(calls, Call("retrieve", idx, hyde_doc, FALSE, BookTopK(top_k), FALSE))
    /\ pyq_context' = <<>>
    /\ pc' = IF use_pyq THEN "retrieve_pyq" ELSE "prompt"
    /\ UNCHANGED <<input_text, max_chars, entry, syllabus_text, subject, use_pyq, top_k, units, idx,
                   unit_text, subtopics, hyde_doc, request, all_unit_content,
                   outcomes, result>>

\* generate_unit_notes, lines 109-116
RetrievePyq ==
    /\ pc = "retrieve_pyq"
    /\ \E r \in RetrieverResults : pyq_context' = PyqSection(r)
    /\ calls' = Append(calls, Call("retrieve", idx, hyde_doc, TRUE, PyqTopK, FALSE))
    /\ pc' = "prompt"
    /\ UNCHANGED <<input_text, max_chars, entry, syllabus_text, subject, use_pyq, top_k, units, idx,
                   unit_text, subtopics, hyde_doc, book_context, request,
                   all_unit_content, outcomes, result>>

\* generate_unit_notes, lines 118-304: truncate, build the prompts
BuildPrompt ==
    /\ pc = "prompt"
    /\ book_context' = truncate_context(book_context, BookContextMaxChars)
    /\ request' = NotesMessages(Unit.unit_title, Unit.unit_text, subject,
                                truncate_context(book_context, BookContextMaxChars),
                                pyq_context, subtopics)
    /\ pc' = "notes"
    /\ UNCHANGED <<input_text, max_chars, entry, syllabus_text, subject, use_pyq, top_k, units, idx,
                   unit_text, subtopics, hyde_doc, pyq_context, all_unit_content,
                   calls, outcomes, result>>

\* generate_final_notes, lines 346 and 355: append, go to the next unit
LoopStep(unit_content) ==
    /\ all_unit_content' = Append(all_unit_content, unit_content)
    /\ idx' = idx + 1
    /\ pc' = IF idx = Len(units) THEN "assemble" ELSE "unit"

\* generate_unit_notes, lines 307-317, the completion call returning
NotesOk ==
    /\ pc = "notes"
    /\ calls' = Append(calls, Call("notes", idx, <<>>, FALSE, 0, FALSE))
    /\ outcomes' = Append(outcomes,
                          Outcome(Unit.unit_title, "ok", "ok", "returned",
                                  NotesText(Len(calls) + 1)))
    /\ LoopStep(NotesText(Len(calls) + 1))
    /\ UNCHANGED <<input_text, max_chars, entry, syllabus_text, subject, use_pyq, top_k, units,
                   unit_text, subtopics, hyde_doc, book_context, pyq_context,
                   request, result>>

\* variant: the exception of the notes call not caught
NotesRaisePropagates ==
    /\ pc = "notes"
    /\ calls' = Append(calls, Call("notes", idx, <<>>, FALSE, 0, TRUE))
    /\ outcomes' = Append(outcomes,
                          Outcome(units[idx].unit_title, "ok", "raised", "raised", <<>>))
    /\ pc' = "raised"
    /\ UNCHANGED <<input_text, max_chars, entry, syllabus_text, subject, use_pyq, top_k, units, idx,
                   unit_text, subtopics, hyde_doc, book_context, pyq_context,
                   request, all_unit_content, result>>

\* generate_unit_notes, lines 307-319, the completion call raising
NotesRaise ==
    /\ pc = "notes"
    /\ calls' = Append(calls, Call("notes", idx, <<>>, FALSE, 0, TRUE))
    /\ outcomes' = Append(outcomes,
                          Outcome(Unit.unit_title, "ok", "raised", "returned",
                                  ErrorDocument(Unit.unit_title, ErrorText)))
    /\ LoopStep(ErrorDocument(Unit.unit_title, ErrorText))
    /\ UNCHANGED <<input_text, max_chars, entry, syllabus_text, subject, use_pyq, top_k, units,
                   unit_text, subtopics, hyde_doc, book_context, pyq_context,
                   request, result>>

\* generate_final_notes, lines 357-384
Assemble ==
    /\ pc = "assemble"
    /\ result' = FinalMarkdown(subject, units, all_unit_content)
    /\ pc' = "done"
    /\ UNCHANGED <<input_text, max_chars, entry, syllabus_text, subject, use_pyq, top_k, units, idx,
                   unit_text, subtopics, hyde_doc, book_context, pyq_context,
                   request, all_unit_content, calls, outcomes>>

\* generate_notes_with_rag, line 94, the HyDE call returning
RagHydeOk ==
    /\ entry = "generate_notes_with_rag"
    /\ pc = "start"
    /\ request' = HydeMessages(syllabus_text)
    /\ calls' = Append(calls, Call("hyde", 0, syllabus_text, FALSE, 0, FALSE))
    /\ hyde_doc' = HydeText(Len(calls) + 1)
    /\ pc' = "rag_retrieve"
    /\ UNCHANGED <<input_text, max_chars, entry, syllabus_text, subject, use_pyq, top_k, units, idx,
                   unit_text, subtopics, book_context, pyq_context,
                   all_unit_content, outcomes, result>>

\* generate_notes_with_rag, line 94, the HyDE call raising
RagHydeRaise ==
    /\ entry = "generate_notes_with_rag"
    /\ pc = "start"
    /\ request' = HydeMessages(syllabus_text)
    /\ calls' = Append(calls, Call("hyde", 0, syllabus_text, FALSE, 0, TRUE))
    /\ pc' = "raised"
    /\ UNCHANGED <<input_text, max_chars, entry, syllabus_text, subject, use_pyq, top_k, units, idx,
                   unit_text, subtopics, hyde_doc, book_context, pyq_context,
                   all_unit_content, outcomes, result>>

\* generate_notes_with_rag, lines 97-102
RagRetrieve ==
    /\ pc = "rag_retrieve"
    /\ \E r \in RetrieverResults : book_context' = r
    /\ calls' = Append(calls, Call("retrieve", 0, hyde_doc, use_pyq, top_k, FALSE))
    /\ pc' = "rag_generate"
    /\ UNCHANGED <<input_text, max_chars, entry, syllabus_text, subject, use_pyq, top_k, units, idx,
                   unit_text, subtopics, hyde_doc, pyq_context, request,
                   all_unit_content, outcomes, result>>

\* generate_notes_with_rag, lines 104-114, and generate_notes, the
\* completion call returning
RagGenerateOk ==
    /\ pc = "rag_generate"
    /\ request' = GenerateNotesMessages(syllabus_text, RagContextChunks(book_context))
    /\ calls' = Append(calls, Call("notes", 0, <<>>, FALSE, 0, FALSE))
    /\ result' = NotesText(Len(calls) + 1)
    /\ pc' = "done"
    /\ UNCHANGED <<input_text, max_chars, entry, syllabus_text, subject, use_pyq, top_k, units, idx,
                   unit_text, subtopics, hyde_doc, book_context, pyq_context,
                   all_unit_content, outcomes>>

\* generate_notes_with_rag, lines 104-114, the completion call raising
RagGenerateRaise ==
    /\ pc = "rag_generate"
    /\ request' = GenerateNotesMessages(syllabus_text, RagContextChunks(book_context))
    /\ calls' = Append(calls, Call("notes", 0, <<>>, FALSE, 0, TRUE))
    /\ pc' = "raised"
    /\ UNCHANGED <<input_text, max_chars, entry, syllabus_text, subject, use_pyq, top_k, units, idx,
                   unit_text, subtopics, hyde_doc, book_context, pyq_context,
                   all_unit_content, outcomes, result>>

Next ==
    \/ FinalStart
    \/ HydeOk
    \/ HydeRaise
    \/ RetrieveBook
    \/ RetrievePyq
    \/ BuildPrompt
    \/ NotesOk
    \/ NotesRaise
    \/ Assemble
    \/ RagHydeOk
    \/ RagHydeRaise
    \/ RagRetrieve
    \/ RagGenerateOk
    \/ RagGenerateRaise

Spec == Init /\ [][Next]_vars

-----------------------------------------------------------------------------
(* Reading the log of calls and the returned document *)

Final == entry = "generate_final_notes"
Rag   == entry = "generate_notes_with_rag"

\* the positions, in calls, of the calls of kind fn made for unit i
CallsOf(fn, i) == {j \in 1..Len(calls) : calls[j].fn = fn /\ calls[j].unit = i}

\* the completion client was called for unit i and every such call raised
EveryCompletionRaised(i) ==
    /\ CallsOf("hyde", i) \cup CallsOf("notes", i) # {}
    /\ \A j \in CallsOf("hyde", i) \cup CallsOf("notes", i) : calls[j].raised

HydeRaised(i)  == \E j \in CallsOf("hyde", i) : calls[j].raised
NotesRaised(i) == \E j \in CallsOf("notes", i) : calls[j].raised
NotesReturned(i) == \E j \in CallsOf("notes", i) : ~calls[j].raised

\* the elements of a set of numbers in increasing order
RECURSIVE Ascending(_)
Ascending(S) ==
    IF S = {} THEN <<>>
    ELSE LET m == CHOOSE x \in S : \A y \in S : x <= y
         IN  <<m>> \o Ascending(S \ {m})

Positions(doc, piece) == {i \in 1..Len(doc) : doc[i] = piece}

\* the titles of the table-of-contents entries of a document, in order: what
\* stands between each "- [" and the "](#" that follows it
TocTitles(doc) ==
    LET opens == Ascending(Positions(doc, TocOpen))
    IN  [j \in 1..Len(opens) |->
            LET mid == CHOOSE m \in Positions(doc, TocMid) :
                          /\ m > opens[j]
                          /\ \A n \in Positions(doc, TocMid) : n > opens[j] => m <= n
            IN  SubSeq(doc, opens[j] + 1, mid - 1)]

\* s.split(sep) for a one-element separator
RECURSIVE SplitOn(_, _)
SplitOn(s, sep) ==
    IF Positions(s, sep) = {} THEN <<s>>
    ELSE LET p == CHOOSE x \in Positions(s, sep) : \A y \in Positions(s, sep) : x <= y
         IN  <<SubSeq(s, 1, p - 1)>> \o SplitOn(SubSeq(s, p + 1, Len(s)), sep)

\* where the table of contents of a document ends, where its footer starts
TocEndPos(doc) == CHOOSE x \in Positions(doc, TocEnd) : \A y \in Positions(doc, TocEnd) : x <= y
FooterPos(doc) == CHOOSE x \in Positions(doc, FooterStart) : TRUE

\* the unit documents of a document, in order: what stands between the end
\* of the table of contents and the footer, cut at the blank lines that
\* separate the unit documents
UnitDocs(doc) ==
    SplitOn(SubSeq(doc, TocEndPos(doc) + 1, FooterPos(doc) - 1), "\n\n")

\* the text the completion client returned to the notes call made for unit i
NotesReturnedText(i) ==
    NotesText(CHOOSE j \in CallsOf("notes", i) : ~calls[j].raised)

-----------------------------------------------------------------------------
(* C1 *)

\* C1 as stated: whenever every call the completion client received for a
\* unit raised, generate_unit_notes did not raise and returned a string that
\* contains the unit's title.
C1_Original ==
    Final =>
        \A i \in 1..Len(outcomes) :
            EveryCompletionRaised(i) =>
                /\ outcomes[i].ended = "returned"
                /\ Contains(outcomes[i].value, outcomes[i].unit_title)

\* C1 as amended: when the notes completion call raises (the HyDE call having
\* returned), generate_unit_notes does not raise and returns a string that
\* contains the unit's title, the error heading and the error text; when the
\* HyDE call raises, generate_unit_notes raises and makes no notes call.
C1_Amended ==
    Final =>
        \A i \in 1..Len(outcomes) :
            /\ NotesRaised(i) =>
                  /\ outcomes[i].ended = "returned"
                  /\ outcomes[i].unit_title = units[i].unit_title
                  /\ Contains(outcomes[i].value, ErrorHeading \o units[i].unit_title)
                  /\ Contains(outcomes[i].value, ErrorText)
            /\ HydeRaised(i) =>
                  /\ outcomes[i].ended = "raised"
                  /\ CallsOf("notes", i) = {}

\* a unit with a title, whose notes call raised, has returned
C1_Witness ==
    /\ Final
    /\ \E i \in 1..Len(outcomes) :
          /\ NotesRaised(i)
          /\ outcomes[i].ended = "returned"
          /\ Len(units[i].unit_title) > 3

-----------------------------------------------------------------------------
(* C2 *)

\* C2: in generate_final_notes, as long as no HyDE call has raised the run
\* has not been aborted, and once it has ended it has returned a document
\* that holds one unit document per unit, in order: for a unit whose notes
\* call raised, the error section naming its title and the error text; for
\* every other unit, the text the completion client returned for it; and the
\* units after a failed one were processed (their HyDE and notes calls made).
C2_ErrorSectionInPlace ==
    (Final /\ \A i \in 1..Len(units) : ~HydeRaised(i)) =>
        /\ pc # "raised"
        /\ pc = "done" =>
              /\ Len(UnitDocs(result)) = Len(units)
              /\ \A k \in 1..Len(units) :
                    /\ CallsOf("hyde", k) # {}
                    /\ CallsOf("notes", k) # {}
                    /\ NotesRaised(k) =>
                          UnitDocs(result)[k] =
                              ErrorHeading \o units[k].unit_title \o ErrorLabel \o ErrorText
                    /\ ~NotesRaised(k) =>
                          UnitDocs(result)[k] = NotesReturnedText(k)

\* a returned document of three units whose second unit failed
C2_Witness ==
    /\ Final
    /\ pc = "done"
    /\ Len(units) = 3
    /\ NotesRaised(2)
    /\ NotesReturned(1)
    /\ NotesReturned(3)

-----------------------------------------------------------------------------
(* C3 *)

\* C3: in generate_final_notes a HyDE call that raised is the last call made
\* to any collaborator: the invocation of generate_unit_notes ended by
\* raising, the run is aborted, no document was returned, and neither the
\* retriever nor the completion client was called for that unit or a later
\* one.
C3_HydeFailureAborts ==
    Final =>
        \A j \in 1..Len(calls) :
            (calls[j].fn = "hyde" /\ calls[j].raised) =>
                /\ j = Len(calls)
                /\ pc = "raised"
                /\ result = <<>>
                /\ outcomes[Len(outcomes)].ended = "raised"
                /\ Len(outcomes) = calls[j].unit
                /\ \A i \in calls[j].unit..Len(units) :
                      CallsOf("retrieve", i) = {} /\ CallsOf("notes", i) = {}

\* the HyDE call of the second unit of three raised, after the first unit
\* had been generated
C3_Witness ==
    /\ Final
    /\ pc = "raised"
    /\ Len(units) = 3
    /\ HydeRaised(2)
    /\ NotesReturned(1)

-----------------------------------------------------------------------------
(* Reading the headings of a syllabus text *)

\* the number of heading markers the pattern finds in the text
HeadingCount(text) == (Len(SplitParts(text)) - 1) \div 2

\* the j-th heading token, colons stripped and trimmed
HeadingTitle(text, j) == RemoveChar(Strip(SplitParts(text)[2 * j]), ":")

\* the trimmed text between the j-th heading and the next one or the end
HeadingBody(text, j) == Strip(SplitParts(text)[2 * j + 1])

\* the text before the first heading is not blank
HasPreamble(text) == Strip(SplitParts(text)[1]) # <<>>

SplitDone == entry = "split_syllabus_into_units" /\ pc = "done"

-----------------------------------------------------------------------------
(* C4 *)

\* C4 as stated: split_syllabus_into_units never returns an empty sequence.
C4_Original == SplitDone => Len(units) >= 1

\* C4 as amended: split_syllabus_into_units returns an empty sequence exactly
\* when the text starts with a heading marker (nothing but blanks before it)
\* and every heading marker is followed by an empty or blank body; for every
\* other input, pure whitespace and text without a heading marker included,
\* it returns at least one unit, and for a text without a heading marker
\* exactly the unit UNIT-I holding the trimmed text.
C4_Amended ==
    SplitDone =>
        /\ units = <<>> <=>
              /\ HeadingCount(syllabus_text) >= 1
              /\ ~HasPreamble(syllabus_text)
              /\ \A j \in 1..HeadingCount(syllabus_text) :
                    HeadingBody(syllabus_text, j) = <<>>
        /\ HeadingCount(syllabus_text) = 0 =>
              units = <<[unit_title |-> <<"U","N","I","T","-","I">>,
                         unit_text  |-> Strip(ReplaceChar(syllabus_text, "\r", " "))]>>

\* a text of nothing but blanks was split into the one fallback unit
C4_Witness ==
    /\ SplitDone
    /\ Len(syllabus_text) >= 2
    /\ \A i \in 1..Len(syllabus_text) : IsSpace(syllabus_text[i])
    /\ Len(units) = 1

-----------------------------------------------------------------------------
(* C5 *)

\* C5: for a text with N >= 1 headings, each followed by a body that is not
\* blank, split_syllabus_into_units returns exactly N units and the title of
\* the i-th unit is the i-th heading.
C5_OneUnitPerHeading ==
    (/\ SplitDone
     /\ HeadingCount(syllabus_text) >= 1
     /\ \A j \in 1..HeadingCount(syllabus_text) : HeadingBody(syllabus_text, j) # <<>>)
    => /\ Len(units) = HeadingCount(syllabus_text)
       /\ \A i \in 1..Len(units) : units[i].unit_title = HeadingTitle(syllabus_text, i)

-----------------------------------------------------------------------------
(* C6 *)

\* C6: for a text with at least one heading, every returned unit has as
\* title one of the headings and as body the trimmed text that follows that
\* heading, also when text precedes the first heading.
C6_TitleIsHeadingBodyFollows ==
    (SplitDone /\ HeadingCount(syllabus_text) >= 1) =>
        \A i \in 1..Len(units) :
            \E j \in 1..HeadingCount(syllabus_text) :
                /\ units[i].unit_title = HeadingTitle(syllabus_text, j)
                /\ units[i].unit_text = HeadingBody(syllabus_text, j)

-----------------------------------------------------------------------------
(* C7 *)

SubDone == entry = "extract_subtopics" /\ pc = "done"

\* C7: every entry of the list extract_subtopics returns is longer than 3
\* characters once trimmed of blanks, dashes, colons and bullets, and no
\* entry occurs twice.
C7_LongAndDistinct ==
    SubDone =>
        /\ \A i \in 1..Len(subtopics) : Len(StripSet(subtopics[i], TrimChars)) > 3
        /\ \A i, j \in 1..Len(subtopics) : subtopics[i] = subtopics[j] => i = j

-----------------------------------------------------------------------------
(* C8 *)

\* the calls made to the retriever for unit i, in order
RetrieveCallsOf(i) == SelectSeq(calls, LAMBDA c : c.fn = "retrieve" /\ c.unit = i)

\* the passage the HyDE call made for unit i returned
HydePassageOf(i) == HydeText(CHOOSE j \in CallsOf("hyde", i) : TRUE)

\* what a notes prompt holds between the knowledge-base heading and the task
\* heading: the reference context, a blank line, the past-exam context
PromptContexts(prompt) ==
    LET a == CHOOSE x \in Positions(prompt, KnowledgeBaseHeading[1]) : TRUE
        b == CHOOSE x \in Positions(prompt, TaskHeading[1]) : TRUE
    IN  SubSeq(prompt, a + 1, b - 1)

\* C8: for every unit generate_unit_notes has returned for, the retriever
\* was queried with the unit's HyDE passage, first for reference material
\* with min(top_k, 25) results and then, only when use_pyq is true, for
\* past-exam material with 5 results, and not otherwise; when use_pyq is
\* false the past-exam context of the prompt is the empty string.
C8_RetrieverQueries ==
    Final =>
        /\ \A i \in 1..Len(outcomes) :
              outcomes[i].ended = "returned" =>
                  LET book == [fn |-> "retrieve", unit |-> i, text |-> HydePassageOf(i),
                               use_pyq |-> FALSE,
                               top_k |-> IF top_k <= 25 THEN top_k ELSE 25,
                               raised |-> FALSE]
                      pyq  == [fn |-> "retrieve", unit |-> i, text |-> HydePassageOf(i),
                               use_pyq |-> TRUE, top_k |-> 5, raised |-> FALSE]
                  IN  RetrieveCallsOf(i) = IF use_pyq THEN <<book, pyq>> ELSE <<book>>
        /\ (pc = "notes" /\ ~use_pyq) =>
              /\ pyq_context = <<>>
              /\ PromptContexts(request.user) = book_context \o <<"\n\n">>

\* a run with use_pyq and a top_k above the cap has returned for two units
C8_Witness ==
    /\ Final
    /\ use_pyq
    /\ top_k > 25
    /\ Len(outcomes) >= 2
    /\ outcomes[2].ended = "returned"
    /\ Len(RetrieveCallsOf(2)) = 2

-----------------------------------------------------------------------------
(* C9 *)

\* C9: whenever the retriever returned the empty string, the generation
\* request built from it tells the model that no context was found, in the
\* per-unit pipeline and in generate_notes_with_rag alike, and the document
\* returned is not empty.
C9_EmptyContextIsAnnounced ==
    /\ (Final /\ pc = "notes" /\ book_context = <<>>) =>
          Contains(request.user, NoContextNotice)
    /\ (Rag /\ pc = "done" /\ book_context = <<>>) =>
          Contains(request.user, NoContextNotice)
    /\ pc = "done" => result # <<>>

-----------------------------------------------------------------------------
(* C10 *)

\* the HyDE calls, in order: each is the start of an invocation of
\* generate_unit_notes
HydeCalls == SelectSeq(calls, LAMBDA c : c.fn = "hyde")

\* C10: generate_final_notes has at least one unit to process; the
\* invocations of generate_unit_notes are for units 1, 2, ... in that order,
\* one each; the invocation for a unit starts only when those for all
\* earlier units have returned, and every call made for a unit precedes
\* every call made for a later one; the returned document holds one
\* table-of-contents entry per unit and one unit document per unit (the value
\* the unit's invocation returned), both in the order of the units, the
\* table of contents before the unit documents.
C10_SequentialInOrder ==
    (Final /\ pc # "start") =>
        /\ Len(units) >= 1
        /\ units = UnitsOf(syllabus_text)
        /\ Len(HydeCalls) <= Len(units)
        /\ \A j \in 1..Len(HydeCalls) : HydeCalls[j].unit = j
        /\ \A j \in 1..(Len(calls) - 1) : calls[j].unit <= calls[j + 1].unit
        /\ Len(outcomes) <= Len(HydeCalls)
        /\ Len(HydeCalls) <= Len(outcomes) + 1
        /\ \A i \in 1..Len(outcomes) :
              /\ outcomes[i].unit_title = units[i].unit_title
              /\ i < Len(HydeCalls) => outcomes[i].ended = "returned"
        /\ pc = "done" =>
              /\ Len(outcomes) = Len(units)
              /\ TocTitles(result) = [i \in 1..Len(units) |-> units[i].unit_title]
              /\ UnitDocs(result) = [i \in 1..Len(units) |-> outcomes[i].value]
              /\ Cardinality(Positions(result, TocEnd)) = 1
              /\ \A q \in Positions(result, TocOpen) : q < TocEndPos(result)

\* a document of three units has been returned
C10_Witness ==
    /\ Final
    /\ pc = "done"
    /\ Len(units) = 3
    /\ Len(TocTitles(result)) = 3
    /\ Len(UnitDocs(result)) = 3

-----------------------------------------------------------------------------
(* C11 *)

\* the last n characters of s
Suffix(s, n) == SubSeq(s, Len(s) - n + 1, Len(s))

\* C11: _truncate_context(text, max) returns text itself when
\* len(text) <= max, and applied to that result returns it again; when
\* len(text) > max the result ends with the truncation marker (27
\* characters) and what precedes the marker is exactly the first max
\* characters of text.
C11_TruncateContract ==
    entry = "_truncate_context" =>
        /\ (pc = "done" /\ Len(input_text) <= max_chars) => result = input_text
        /\ (pc = "again" /\ Len(input_text) <= max_chars) => result = input_text
        /\ (pc = "done" /\ Len(input_text) > max_chars) =>
              /\ Len(result) = max_chars + 27
              /\ Suffix(result, 27) = TruncationMarker
              /\ SubSeq(result, 1, Len(result) - 27) = SubSeq(input_text, 1, max_chars)

\* a text longer than a budget of at least one character has been cut
C11_Witness ==
    /\ entry = "_truncate_context"
    /\ pc = "done"
    /\ max_chars >= 1
    /\ Len(input_text) > max_chars
    /\ result # input_text

\* a text exactly as long as the budget has been returned twice unchanged
C11_WitnessAtBound ==
    /\ entry = "_truncate_context"
    /\ pc = "again"
    /\ max_chars >= 1
    /\ Len(input_text) = max_chars
    /\ result = input_text

=============================================================================
